---- MODULE Spec2Model ----
(***************************************************************************)
(* Model of the shareable-PDF-links viewer: the route reader (PDFPage),    *)
(* the PDFViewer page/visibility/URL controller with its timers and        *)
(* IntersectionObserver callback, and the string <-> number conversions    *)
(* the URL goes through.                                                   *)
(*                                                                         *)
(* Conventions.  A string is a sequence of one-character strings.  A       *)
(* JavaScript number is an integer, or the value NaN below.  React state   *)
(* updates are committed before the next event is handled, so a handler    *)
(* always runs against the latest committed state.  The render that       *)
(* follows the load mounts a wrapper element for every page 1..numPages;   *)
(* Spec commits it with the load, SpecResume also lets it come after the   *)
(* load timer.  The router is a                                            *)
(* black box: push and replace set the current URL, the viewer instance    *)
(* keeps the initialPage it was constructed with.  Timers fire in the      *)
(* order of their deadlines; every settle timer has the same delay and the *)
(* load timer is created before any of them, so the pending timers form a  *)
(* FIFO queue.                                                             *)
(***************************************************************************)
EXTENDS Integers, Sequences, FiniteSets

\* ------------------------------------------------------------------ bounds
MaxPages == 4        \* largest document (pdf.numPages ranges over 1..MaxPages)
MaxBatch == 2        \* most entries in one observer batch, in SpecObserver
ObserverPages == 3   \* largest document in SpecObserver
MaxTimers == 2       \* most timers pending at once
MaxLen == 2          \* longest string given to the parsers
MaxNum == 120        \* largest number written to a URL in the round-trip runs
MaxZoomIns == 11     \* most zoomIn calls counted in one run from scale 1.0
MaxDocPages == 2     \* largest document in the search runs
MaxSearches == 2     \* most searches awaiting a page at once

\* --------------------------------------------------------- JavaScript values
NaN == 0 - 1000

IsNaN(x) == x = NaN

\* a < b, a <= b, a > b, a >= b : false as soon as one side is NaN
JsLt(a, b) == ~IsNaN(a) /\ ~IsNaN(b) /\ a < b
JsLe(a, b) == ~IsNaN(a) /\ ~IsNaN(b) /\ a <= b
JsGt(a, b) == JsLt(b, a)
JsGe(a, b) == JsLe(b, a)

JsAdd(a, b) == IF IsNaN(a) \/ IsNaN(b) THEN NaN ELSE a + b
JsSub(a, b) == IF IsNaN(a) \/ IsNaN(b) THEN NaN ELSE a - b

MathMax(a, b) == IF IsNaN(a) \/ IsNaN(b) THEN NaN ELSE IF a >= b THEN a ELSE b
MathMin(a, b) == IF IsNaN(a) \/ IsNaN(b) THEN NaN ELSE IF a <= b THEN a ELSE b

\* for (let i = lo; i <= hi; i++) add(i)
LoopRange(lo, hi) == IF IsNaN(lo) \/ IsNaN(hi) THEN {} ELSE lo .. hi

\* ------------------------------------------------------------------ strings
Digits == <<"0", "1", "2", "3", "4", "5", "6", "7", "8", "9">>

IsDigit(c) == \E i \in 1..10 : Digits[i] = c

DigitVal(c) == (CHOOSE i \in 1..10 : Digits[i] = c) - 1

IsSpace(c) == c = " "

RECURSIVE TrimStart(_)
TrimStart(s) == IF s # <<>> /\ IsSpace(Head(s)) THEN TrimStart(Tail(s)) ELSE s

\* the longest prefix of digits of s, as a number; acc is the value so far
RECURSIVE DigitsPrefix(_, _, _)
DigitsPrefix(s, acc, seen) ==
  IF s # <<>> /\ IsDigit(Head(s))
    THEN DigitsPrefix(Tail(s), acc * 10 + DigitVal(Head(s)), TRUE)
    ELSE IF seen THEN acc ELSE NaN

\* parseInt(s, 10)
ParseInt(s) ==
  LET t == TrimStart(s) IN
  IF t # <<>> /\ Head(t) = "-"
    THEN LET v == DigitsPrefix(Tail(t), 0, FALSE) IN IF IsNaN(v) THEN NaN ELSE 0 - v
    ELSE IF t # <<>> /\ Head(t) = "+"
      THEN DigitsPrefix(Tail(t), 0, FALSE)
      ELSE DigitsPrefix(t, 0, FALSE)

RECURSIVE NatToString(_)
NatToString(n) ==
  IF n < 10 THEN <<Digits[n + 1]>>
  ELSE NatToString(n \div 10) \o <<Digits[(n % 10) + 1]>>

\* Number.prototype.toString / template-literal conversion of a number
ToString(n) ==
  IF IsNaN(n) THEN <<"N", "a", "N">>
  ELSE IF n < 0 THEN <<"-">> \o NatToString(0 - n)
  ELSE NatToString(n)

\* ------------------------------------------------------------ URL and route
PdfName == "prospectus"

\* mutant of PathUrl: the page segment is left out of the URL
PathUrlWithoutPage(name, n) == [pdfName |-> name, page |-> <<>>]

\* `/${pdfName}/${pageNum}` as the route sees it: the document segment and the
\* optional catch-all segments after it
PathUrl(name, n) == [pdfName |-> name, page |-> <<ToString(n)>>]

\* mutant of PDFPage: only the first character of the segment is parsed
PDFPageFirstChar(params) ==
  IF params.page # <<>> /\ params.page[1] # <<>>
    THEN ParseInt(<<Head(params.page[1])>>)
    ELSE 1

\* const pageNumber = page && page[0] ? parseInt(page[0], 10) : 1
PDFPage(params) ==
  IF params.page # <<>> /\ params.page[1] # <<>>
    THEN ParseInt(params.page[1])
    ELSE 1

\* the URLs a session starts from: no page segment, a non-numeric one, zero,
\* a negative number, every page of the largest document and one past it
RouteSegments ==
  {<<>>, <<<<"a">>>>, <<<<"0">>>>, <<<<"-", "1">>>>}
    \cup {<<ToString(n)>> : n \in 1..(MaxPages + 1)}

RouteUrls == {[pdfName |-> PdfName, page |-> p] : p \in RouteSegments}

\* what the user can type into the jump-to-page field
PageInputs ==
  {<<>>, <<"a">>, <<"0">>, <<"2", "a">>}
    \cup {ToString(n) : n \in 1..(MaxPages + 1)}

\* --------------------------------------------------------- viewer constants
GoToBuffer == 2
LoadBuffer == 3
ObserverBuffer == 3
RatioThreshold == 50

\* threshold: [0, 0.25, 0.5, 0.75, 1], in percent
Thresholds == {0, 25, 50, 75, 100}

VARIABLES
  url,               \* the browser's current URL
  initialPage,       \* PDFViewer prop
  numPages,          \* 0 stands for null
  isLoading,
  error,             \* TRUE when the error message is set
  currentPage,
  visiblePages,
  isScrollingToPage, \* ref: navigation-intent flag
  isInitialLoad,     \* ref: initial-load flag
  pageRefs,          \* ref: the pages whose wrapper element is mounted
  timers,            \* pending setTimeout callbacks, first to fire first
  lastOp,            \* the handler that ran last, with its input
  calls,             \* router and scroll calls issued by the handler that ran last
  navTimer,          \* position in timers of the last accepted goToPage's timer
  navTarget,         \* the page of the last accepted goToPage, 0 before the first
  searchParams,      \* usePDFNavigation: the URL's query
  totalPages,        \* usePDFNavigation: its argument, 0 stands for null
  hookPage,          \* usePDFNavigation: currentPage
  hookEffects,       \* usePDFNavigation: effects whose dependencies changed
  readerShape,       \* URL reader runs: "path" or "query"
  readerText,        \* URL reader runs: the page component, <<>> or <<string>>
  written,           \* URL reader runs: the page last written, 0 when none
  readResult,        \* URL reader runs: <<>> or <<the number read>>
  route,             \* the document route: what rendering it led to
  zoomMode,          \* 'auto' | 'fit-width' | 'fit-page' | 'custom'
  scale,             \* the zoom scale, a binary64 number
  pageWidth,         \* the render width of a page
  viewport,          \* window.innerWidth and window.innerHeight
  zoomIns,           \* zoomIn calls in a row since the scale was 1.0, -1 when not
                     \* in such a run
  pageTexts,         \* the document: for each page, its text items
  searchQuery,
  isSearching,
  matchCount,
  searches           \* the handleSearch calls that are awaiting a page

viewerVars == <<url, initialPage, numPages, isLoading, error, currentPage, visiblePages,
                isScrollingToPage, isInitialLoad, pageRefs, timers, navTimer,
                navTarget>>

hookVars == <<searchParams, totalPages, hookPage, hookEffects>>

readerVars == <<readerShape, readerText, written, readResult>>

zoomVars == <<zoomMode, scale, pageWidth, viewport, zoomIns>>

searchVars == <<pageTexts, searchQuery, isSearching, matchCount, searches>>

\* what the viewer's page controller, the hook and the reader runs never touch
restVars == <<route, zoomVars, searchVars>>

vars == <<viewerVars, hookVars, readerVars, restVars, lastOp, calls>>

\* an explicit navigation has been accepted
userNav == navTarget # 0

\* which handler ran, the page number it was given (0 when it takes none), and for
\* an observer batch its highest intersection ratio and the pages that have it
Op(name, page) == [name |-> name, page |-> page, maxRatio |-> 0, top |-> {}]

MaxOf(S) == CHOOSE x \in S : \A y \in S : y <= x

BatchMaxRatio(batch) == MaxOf({batch[i].ratio : i \in 1..Len(batch)})

BatchTop(batch) ==
  {batch[i].page : i \in {j \in 1..Len(batch) : batch[j].ratio = BatchMaxRatio(batch)}}

ObserveOp(batch) ==
  [name |-> "observe", page |-> 0, maxRatio |-> BatchMaxRatio(batch),
   top |-> BatchTop(batch)]

Call(op, page) == [op |-> op, page |-> page, url |-> PathUrl(PdfName, page)]

\* mutant of BufferedSet: the upper end of the loop is not clamped to numPages
BufferedSetUnclampedAbove(p, n, buffer) ==
  LoopRange(MathMax(1, JsSub(p, buffer)), JsAdd(p, buffer))

\* mutant of BufferedSet: the window is one page narrower on each side
BufferedSetNarrow(p, n, buffer) ==
  LoopRange(MathMax(1, JsSub(p, buffer - 1)), MathMin(n, JsAdd(p, buffer - 1)))

\* new Set over the loop  for (i = max(1, p - buffer); i <= min(numPages, p + buffer); i++)
BufferedSet(p, n, buffer) ==
  LoopRange(MathMax(1, JsSub(p, buffer)), MathMin(n, JsAdd(p, buffer)))

\* the hook and the reader runs take no part in the viewer's specification
HookUnused ==
  /\ searchParams = [page |-> <<>>, rest |-> <<>>]
  /\ totalPages = 0
  /\ hookPage = 0
  /\ hookEffects = {}

ReaderUnused ==
  /\ readerShape = "none"
  /\ readerText = <<>>
  /\ written = 0
  /\ readResult = <<>>

RouteUnused == route = [outcome |-> "none"]

ZoomUnused ==
  /\ zoomMode = "none"
  /\ scale = <<>>
  /\ pageWidth = 0
  /\ viewport = <<>>
  /\ zoomIns = 0

SearchUnused ==
  /\ pageTexts = <<>>
  /\ searchQuery = <<>>
  /\ isSearching = FALSE
  /\ matchCount = 0
  /\ searches = <<>>

ViewerUnused ==
  /\ url = [pdfName |-> PdfName, page |-> <<>>]
  /\ initialPage = 0
  /\ numPages = 0
  /\ isLoading = FALSE
  /\ error = FALSE
  /\ currentPage = 0
  /\ visiblePages = {}
  /\ isScrollingToPage = FALSE
  /\ isInitialLoad = FALSE
  /\ pageRefs = {}
  /\ timers = <<>>
  /\ navTimer = 0
  /\ navTarget = 0

\* PDFViewer's initial state for the page the route supplies
Init ==
  /\ url \in RouteUrls
  /\ initialPage = PDFPage(url)
  /\ numPages = 0
  /\ isLoading = TRUE
  /\ error = FALSE
  /\ currentPage = initialPage
  /\ visiblePages = {initialPage}
  /\ isScrollingToPage = FALSE
  /\ isInitialLoad = TRUE
  /\ pageRefs = {}
  /\ timers = <<>>
  /\ lastOp = Op("mount", 0)
  /\ calls = <<>>
  /\ navTimer = 0
  /\ navTarget = 0
  /\ HookUnused
  /\ ReaderUnused
  /\ RouteUnused
  /\ ZoomUnused
  /\ SearchUnused

\* scrollToPage(pageNum): the flag, the scroll request and the settle timer
ScrollsTo(pageNum) == pageNum \in pageRefs

\* mutant of GoToPageGuard: the upper bound is not checked
GoToPageGuardNoUpperBound(pageNum) == numPages # 0 /\ JsGe(pageNum, 1)

\* mutant of GoToPageGuard: an unknown page count lets every page >= 1 through
GoToPageGuardUnloaded(pageNum) ==
  JsGe(pageNum, 1) /\ (numPages = 0 \/ JsLe(pageNum, numPages))

\* goToPage's condition  numPages && pageNum >= 1 && pageNum <= numPages
GoToPageGuard(pageNum) ==
  numPages # 0 /\ JsGe(pageNum, 1) /\ JsLe(pageNum, numPages)

\* the body of goToPage(pageNum); op is the handler it runs in
GoToPageBody(pageNum, op) ==
  /\ lastOp' = op
  /\ IF GoToPageGuard(pageNum)
       THEN /\ Len(timers) < MaxTimers
            /\ visiblePages' = BufferedSet(pageNum, numPages, GoToBuffer)
            /\ currentPage' = pageNum
            /\ IF ScrollsTo(pageNum)
                 THEN /\ isScrollingToPage' = TRUE
                      /\ timers' = Append(timers, "settle")
                      /\ navTimer' = Len(timers) + 1
                      /\ calls' = <<Call("scroll", pageNum), Call("push", pageNum)>>
                 ELSE /\ UNCHANGED <<isScrollingToPage, timers>>
                      /\ navTimer' = 0
                      /\ calls' = <<Call("push", pageNum)>>
            /\ url' = PathUrl(PdfName, pageNum)
            /\ navTarget' = pageNum
       ELSE /\ calls' = <<>>
            /\ UNCHANGED <<visiblePages, currentPage, isScrollingToPage, timers,
                           navTimer, url, navTarget>>
  /\ UNCHANGED <<initialPage, pageRefs, numPages, isLoading, error, isInitialLoad>>
  /\ UNCHANGED <<hookVars, readerVars, restVars>>

GoToPage(pageNum) == GoToPageBody(pageNum, Op("goToPage", pageNum))

\* if (numPages && currentPage < numPages) goToPage(currentPage + 1)
NextPage ==
  IF numPages # 0 /\ JsLt(currentPage, numPages)
    THEN GoToPageBody(JsAdd(currentPage, 1), Op("nextPage", 0))
    ELSE /\ lastOp' = Op("nextPage", 0)
         /\ calls' = <<>>
         /\ UNCHANGED <<url, initialPage, pageRefs, numPages, isLoading, error, currentPage,
                        visiblePages, isScrollingToPage, isInitialLoad, timers,
                        navTimer, navTarget, hookVars, readerVars, restVars>>

\* if (currentPage > 1) goToPage(currentPage - 1)
PreviousPage ==
  IF JsGt(currentPage, 1)
    THEN GoToPageBody(JsSub(currentPage, 1), Op("previousPage", 0))
    ELSE /\ lastOp' = Op("previousPage", 0)
         /\ calls' = <<>>
         /\ UNCHANGED <<url, initialPage, pageRefs, numPages, isLoading, error, currentPage,
                        visiblePages, isScrollingToPage, isInitialLoad, timers,
                        navTimer, navTarget, hookVars, readerVars, restVars>>

\* PDFControls.handleGoToPage: the jump-to-page form, rendered once numPages is set
HandleGoToPage(pageInput) ==
  /\ numPages # 0
  /\ ~error
  /\ LET page == ParseInt(pageInput) IN
     IF ~IsNaN(page) /\ JsGe(page, 1) /\ (numPages = 0 \/ JsLe(page, numPages))
       THEN GoToPageBody(page, Op("handleGoToPage", page))
       ELSE /\ lastOp' = Op("handleGoToPage", page)
            /\ calls' = <<>>
            /\ UNCHANGED <<url, initialPage, pageRefs, numPages, isLoading, error, currentPage,
                           visiblePages, isScrollingToPage, isInitialLoad, timers,
                           navTimer, navTarget, hookVars, readerVars, restVars>>

\* onDocumentLoadSuccess(pdf), pdf.numPages = n; refs are the page wrappers
\* mounted when the next callback runs
DocumentLoadBody(n, refs) ==
  /\ isLoading
  /\ pageRefs' = refs
  /\ numPages' = n
  /\ isLoading' = FALSE
  /\ error' = FALSE
  /\ visiblePages' = BufferedSet(initialPage, n, LoadBuffer)
  /\ timers' = IF JsGt(initialPage, 1) /\ JsLe(initialPage, n)
                 THEN Append(timers, "initScroll")
                 ELSE Append(timers, "initDone")
  /\ lastOp' = Op("load", n)
  /\ calls' = <<>>
  /\ UNCHANGED <<url, initialPage, currentPage, isScrollingToPage, isInitialLoad,
                 navTimer, navTarget, hookVars, readerVars, restVars>>

\* the load whose render, which mounts a wrapper for every page 1..numPages, is
\* committed before any other callback runs
DocumentLoadSuccess(n) == DocumentLoadBody(n, 1..n)

\* the load whose render is still to be committed
DocumentLoadBeforeRender(n) == DocumentLoadBody(n, {})

\* the commit of that render: the ref callbacks  pageRefs.current[pageNum] = el
MountPages ==
  /\ numPages # 0
  /\ ~error
  /\ pageRefs # 1..numPages
  /\ pageRefs' = 1..numPages
  /\ lastOp' = Op("render", 0)
  /\ calls' = <<>>
  /\ UNCHANGED <<url, initialPage, numPages, isLoading, error, currentPage,
                 visiblePages, isScrollingToPage, isInitialLoad, timers, navTimer,
                 navTarget, hookVars, readerVars, restVars>>

\* onDocumentLoadError(error)
DocumentLoadError ==
  /\ isLoading
  /\ error' = TRUE
  /\ isLoading' = FALSE
  /\ lastOp' = Op("loadError", 0)
  /\ calls' = <<>>
  /\ UNCHANGED <<url, initialPage, pageRefs, numPages, currentPage, visiblePages,
                 isScrollingToPage, isInitialLoad, timers, navTimer, navTarget,
                 hookVars, readerVars, restVars>>

\* the setTimeout callback that is due first
TimerFire ==
  /\ timers # <<>>
  /\ LET t == Head(timers) IN
     /\ lastOp' = Op(t, 0)
     /\ navTimer' = IF navTimer > 0 THEN navTimer - 1 ELSE 0
     /\ CASE t = "settle" ->
               \* isScrollingToPage.current = false; isInitialLoad.current = false
               /\ isScrollingToPage' = FALSE
               /\ isInitialLoad' = FALSE
               /\ timers' = Tail(timers)
               /\ calls' = <<>>
          [] t = "initDone" ->
               \* isInitialLoad.current = false
               /\ isInitialLoad' = FALSE
               /\ timers' = Tail(timers)
               /\ calls' = <<>>
               /\ UNCHANGED isScrollingToPage
          [] t = "initScroll" ->
               \* scrollToPage(initialPage)
               IF ScrollsTo(initialPage)
                 THEN /\ isScrollingToPage' = TRUE
                      /\ timers' = Append(Tail(timers), "settle")
                      /\ calls' = <<Call("scroll", initialPage)>>
                      /\ UNCHANGED isInitialLoad
                 ELSE /\ timers' = Tail(timers)
                      /\ calls' = <<>>
                      /\ UNCHANGED <<isScrollingToPage, isInitialLoad>>
  /\ UNCHANGED <<url, initialPage, pageRefs, numPages, isLoading, error, currentPage,
                 visiblePages, navTarget, hookVars, readerVars, restVars>>

\* ------------------------------------------------- IntersectionObserver batch
Entries(n) ==
  {[page |-> p, ratio |-> r, isIntersecting |-> r > 0] : p \in 1..n, r \in Thresholds}

RECURSIVE Batches(_, _)
Batches(n, len) ==
  IF len = 0 THEN {<<>>}
  ELSE LET shorter == Batches(n, len - 1) IN
       shorter \cup
         {Append(b, e) : b \in {x \in shorter : Len(x) = len - 1},
                         e \in Entries(n)}

DistinctPages(b) == \A i, j \in 1..Len(b) : b[i].page = b[j].page => i = j

\* the batches of at most len entries a document of MaxPages pages can deliver,
\* one entry per observed element
ObserverBatches(len) ==
  {b \in Batches(MaxPages, len) : b # <<>> /\ DistinctPages(b)}

\* every entry is for an element that exists: a page wrapper 1..n
InDocument(b, n) == \A i \in 1..Len(b) : b[i].page <= n

\* Spec hands the observer one entry per callback run; batches of several
\* entries are the subject of SpecObserver
SingleBatches == {<<e>> : e \in Entries(MaxPages)}

FullBatches == ObserverBatches(MaxBatch)

\* parseInt(entry.target.getAttribute('data-page-number') || '1', 10)
EntryPageNum(entry) ==
  LET attr == ToString(entry.page) IN
  ParseInt(IF attr # <<>> THEN attr ELSE <<"1">>)

\* mutant of IsMainVisible: any intersecting entry counts as the main visible page
IsMainVisibleAnyRatio(entry, closedPage) ==
  entry.ratio > 0 /\ EntryPageNum(entry) # closedPage

\* entry.intersectionRatio > 0.5 && pageNum !== currentPage
\* (currentPage is the value the callback closed over)
IsMainVisible(entry, closedPage) ==
  entry.ratio > RatioThreshold /\ EntryPageNum(entry) # closedPage

\* mutant of ObserveEntry: the current page is set without the router.replace
ObserveEntryKeepsUrl(st, entry, closedPage) ==
  IF ~entry.isIntersecting THEN st
  ELSE LET pageNum == EntryPageNum(entry)
           grown == [st EXCEPT !.visible =
                       st.visible \cup BufferedSet(pageNum, numPages, ObserverBuffer)]
       IN IF IsMainVisible(entry, closedPage)
            THEN [grown EXCEPT !.current = pageNum]
            ELSE grown

\* the body of entries.forEach, applied to st = the state the updates have built
ObserveEntry(st, entry, closedPage) ==
  IF ~entry.isIntersecting THEN st
  ELSE LET pageNum == EntryPageNum(entry)
           grown == [st EXCEPT !.visible =
                       st.visible \cup BufferedSet(pageNum, numPages, ObserverBuffer)]
       IN IF IsMainVisible(entry, closedPage)
            THEN [grown EXCEPT !.current = pageNum,
                               !.url = PathUrl(PdfName, pageNum),
                               !.calls = Append(grown.calls, Call("replace", pageNum))]
            ELSE grown

RECURSIVE ObserveAll(_, _, _)
ObserveAll(st, batch, closedPage) ==
  IF batch = <<>> THEN st
  ELSE ObserveAll(ObserveEntry(st, Head(batch), closedPage), Tail(batch), closedPage)

\* mutant of ObserverSuppressed: the navigation-intent flag is not consulted
ObserverSuppressedByInitialLoadOnly == isInitialLoad

\* mutant of ObserverSuppressed: the initial-load flag is not consulted
ObserverSuppressedByScrollOnly == isScrollingToPage

\* if (isScrollingToPage.current || isInitialLoad.current) return
ObserverSuppressed == isScrollingToPage \/ isInitialLoad

\* the IntersectionObserver callback, given one batch of entries
Observe(batch) ==
  /\ numPages # 0
  /\ lastOp' = ObserveOp(batch)
  /\ IF ObserverSuppressed
       THEN /\ calls' = <<>>
            /\ UNCHANGED <<visiblePages, currentPage, url>>
       ELSE LET st == ObserveAll([visible |-> visiblePages, current |-> currentPage,
                                  url |-> url, calls |-> <<>>], batch, currentPage)
            IN /\ visiblePages' = st.visible
               /\ currentPage' = st.current
               /\ url' = st.url
               /\ calls' = st.calls
  /\ UNCHANGED <<initialPage, pageRefs, numPages, isLoading, error, isScrollingToPage,
                 isInitialLoad, timers, navTimer, navTarget, hookVars, readerVars, restVars>>

NavArgs == 0..(MaxPages + 1)

Next ==
  \/ \E n \in 1..MaxPages : DocumentLoadSuccess(n)
  \/ DocumentLoadError
  \/ \E n \in NavArgs : GoToPage(n)
  \/ NextPage
  \/ PreviousPage
  \/ \E s \in PageInputs : HandleGoToPage(s)
  \/ \E b \in SingleBatches : InDocument(b, numPages) /\ Observe(b)
  \/ TimerFire

Spec == Init /\ [][Next]_vars

\* the observer under batches of several entries, with the operations that move
\* the viewer between its tracking and its suppressed states
NextObserver ==
  \/ \E n \in 1..ObserverPages : DocumentLoadSuccess(n)
  \/ \E n \in 1..ObserverPages : GoToPage(n)
  \/ \E b \in FullBatches : InDocument(b, numPages) /\ Observe(b)
  \/ TimerFire

\* sessions that start at page 1, at the invalid page 0 and at the direct link 2
InitObserver == Init /\ url.page \in {<<>>, <<<<"0">>>>, <<<<"2">>>>}

SpecObserver == InitObserver /\ [][NextObserver]_vars

\* the viewer from load to the resumption of passive tracking: the render that
\* mounts the page wrappers may be committed with the load or after it, pending
\* timers fire and a pending render is committed
NextResume ==
  \/ \E n \in 1..ObserverPages : DocumentLoadSuccess(n)
  \/ \E n \in 1..ObserverPages : DocumentLoadBeforeRender(n)
  \/ MountPages
  \/ \E n \in 1..ObserverPages : GoToPage(n)
  \/ \E b \in SingleBatches : InDocument(b, numPages) /\ Observe(b)
  \/ TimerFire

SpecResume ==
  Init /\ [][NextResume]_vars /\ WF_vars(TimerFire) /\ WF_vars(MountPages)

\* searchParams.get('page') || '1'
PageParamOrOne(params) ==
  IF params.page # <<>> /\ params.page[1] # <<>> THEN params.page[1] ELSE <<"1">>

\* parseInt(searchParams.get('page') || '1', 10)
HookPageFromUrl(params) == ParseInt(PageParamOrOne(params))

\* useState(Math.max(1, initialPage))
HookInitialPage(params) == MathMax(1, HookPageFromUrl(params))

\* params.set('page', newPage.toString()) on a copy of the current parameters
SetPageParam(params, newPage) == [params EXCEPT !.page = <<ToString(newPage)>>]

HookCall(op, page, params) == [op |-> op, page |-> page, url |-> params]

HookPageParams ==
  {<<>>, <<<<"a">>>>, <<<<"0">>>>, <<<<"-", "1">>>>}
    \cup {<<ToString(n)>> : n \in 1..(MaxPages + 1)}

HookUrls == {[page |-> p, rest |-> r] : p \in HookPageParams, r \in {<<>>, <<"q=x">>}}

InitHook ==
  /\ searchParams \in HookUrls
  /\ totalPages = 0
  /\ hookPage = HookInitialPage(searchParams)
  /\ hookEffects = {"sync", "validate"}
  /\ lastOp = Op("mount", 0)
  /\ calls = <<>>
  /\ ViewerUnused
  /\ ReaderUnused
  /\ RouteUnused
  /\ ZoomUnused
  /\ SearchUnused

\* updatePage's condition to return early
UpdatePageRejects(newPage) ==
  totalPages # 0 /\ (JsLt(newPage, 1) \/ JsGt(newPage, totalPages))

\* updatePage(newPage), run by the handler op
UpdatePage(newPage, op) ==
  /\ lastOp' = op
  /\ IF UpdatePageRejects(newPage)
       THEN /\ calls' = <<>>
            /\ UNCHANGED <<hookPage, searchParams, hookEffects>>
       ELSE /\ hookPage' = newPage
            /\ searchParams' = SetPageParam(searchParams, newPage)
            /\ calls' = <<HookCall("push", newPage, SetPageParam(searchParams, newPage))>>
            /\ hookEffects' = {"sync"}
  /\ UNCHANGED <<totalPages, viewerVars, readerVars, restVars>>

HookNoOp(op) ==
  /\ lastOp' = op
  /\ calls' = <<>>
  /\ UNCHANGED <<hookVars, viewerVars, readerVars, restVars>>

\* goToPage(page)
HookGoToPage(page) ==
  /\ hookEffects = {}
  /\ LET pageNum == MathMax(1, page) IN
     IF totalPages # 0
       THEN UpdatePage(MathMin(pageNum, totalPages), Op("hookGoToPage", page))
       ELSE UpdatePage(pageNum, Op("hookGoToPage", page))

\* nextPage()
HookNextPage ==
  /\ hookEffects = {}
  /\ IF totalPages # 0 /\ JsLt(hookPage, totalPages)
       THEN UpdatePage(JsAdd(hookPage, 1), Op("hookNextPage", 0))
       ELSE HookNoOp(Op("hookNextPage", 0))

\* previousPage()
HookPreviousPage ==
  /\ hookEffects = {}
  /\ IF JsGt(hookPage, 1)
       THEN UpdatePage(JsSub(hookPage, 1), Op("hookPreviousPage", 0))
       ELSE HookNoOp(Op("hookPreviousPage", 0))

\* the viewer's setNumPages(pdf.numPages): the hook's argument becomes n
HookTotalPagesLoaded(n) ==
  /\ hookEffects = {}
  /\ totalPages = 0
  /\ totalPages' = n
  /\ hookEffects' = {"validate"}
  /\ lastOp' = Op("hookLoad", n)
  /\ calls' = <<>>
  /\ UNCHANGED <<searchParams, hookPage, viewerVars, readerVars, restVars>>

\* browser back/forward: useSearchParams() returns the parameters of another
\* history entry
HookUrlChanged(params) ==
  /\ hookEffects = {}
  /\ params # searchParams
  /\ searchParams' = params
  /\ hookEffects' = {"sync"}
  /\ lastOp' = Op("hookUrlChanged", 0)
  /\ calls' = <<>>
  /\ UNCHANGED <<totalPages, hookPage, viewerVars, readerVars, restVars>>

\* the validation effect's condition, on the currentPage of the render it belongs to
ValidationFires == totalPages # 0 /\ JsGt(hookPage, totalPages)

\* the effects of one commit, in the order they are declared: the URL sync
\* (deps [searchParams]), then the validation (deps [totalPages])
HookRunEffects ==
  /\ hookEffects # {}
  /\ lastOp' = Op("hookEffects", 0)
  /\ LET pageFromUrl == HookPageFromUrl(searchParams)
         synced == IF "sync" \in hookEffects /\ pageFromUrl # hookPage
                     THEN pageFromUrl ELSE hookPage
     IN IF "validate" \in hookEffects /\ ValidationFires
          THEN \* updatePage(totalPages)
               /\ hookPage' = totalPages
               /\ searchParams' = SetPageParam(searchParams, totalPages)
               /\ calls' = <<HookCall("push", totalPages,
                                      SetPageParam(searchParams, totalPages))>>
               /\ hookEffects' = {"sync"}
          ELSE /\ hookPage' = synced
               /\ calls' = <<>>
               /\ hookEffects' = {}
               /\ UNCHANGED searchParams
  /\ UNCHANGED <<totalPages, viewerVars, readerVars, restVars>>

NextHook ==
  \/ \E n \in NavArgs : HookGoToPage(n)
  \/ HookNextPage
  \/ HookPreviousPage
  \/ \E n \in 1..MaxPages : HookTotalPagesLoaded(n)
  \/ \E params \in HookUrls : HookUrlChanged(params)
  \/ HookRunEffects

SpecHook == InitHook /\ [][NextHook]_vars

\* ------------------------------------------------- writing and reading a page
Chars == {"0", "2", "-", "a", " "}

RECURSIVE Strings(_)
Strings(len) ==
  IF len = 0 THEN {<<>>}
  ELSE LET shorter == Strings(len - 1) IN
       shorter \cup {Append(t, c) : t \in {x \in shorter : Len(x) = len - 1}, c \in Chars}

\* the page component of a URL somebody typed: none, or any short string
TypedComponents == {<<>>} \cup {<<t>> : t \in Strings(MaxLen)}

InitReader ==
  /\ readerShape \in {"path", "query"}
  /\ readerText \in TypedComponents
  /\ written = 0
  /\ readResult = <<>>
  /\ lastOp = Op("mount", 0)
  /\ calls = <<>>
  /\ ViewerUnused
  /\ HookUnused
  /\ RouteUnused
  /\ ZoomUnused
  /\ SearchUnused

\* the page component the controller writes for page n:
\* router.push(`/${pdfName}/${pageNum}`) or params.set('page', newPage.toString())
WrittenComponent(shape, n) ==
  IF shape = "path"
    THEN PathUrl(PdfName, n).page
    ELSE SetPageParam([page |-> <<>>, rest |-> <<>>], n).page

\* the page number the reader of that URL shape starts from
ReadComponent(shape, text) ==
  IF shape = "path"
    THEN PDFPage([pdfName |-> PdfName, page |-> text])
    ELSE HookInitialPage([page |-> text, rest |-> <<>>])

WritePage(n) ==
  /\ readerText' = WrittenComponent(readerShape, n)
  /\ written' = n
  /\ readResult' = <<>>
  /\ lastOp' = Op("writePage", n)
  /\ UNCHANGED <<readerShape, calls, viewerVars, hookVars, restVars>>

ReadPage ==
  /\ readResult = <<>>
  /\ readResult' = <<ReadComponent(readerShape, readerText)>>
  /\ lastOp' = Op("readPage", 0)
  /\ UNCHANGED <<readerShape, readerText, written, calls, viewerVars, hookVars, restVars>>

NextReader ==
  \/ \E n \in 1..MaxNum : WritePage(n)
  \/ ReadPage

SpecReader == InitReader /\ [][NextReader]_vars

\* ------------------------------------------- natural numbers of any size
\* little-endian sequences of limbs in 0..LimbBase-1, without leading zero limbs
LimbBase == 32768
LimbBits == 15

RECURSIVE BigNorm(_)
BigNorm(a) ==
  IF a # <<>> /\ a[Len(a)] = 0 THEN BigNorm(SubSeq(a, 1, Len(a) - 1)) ELSE a

RECURSIVE BigFromNat(_)
BigFromNat(n) ==
  IF n = 0 THEN <<>> ELSE <<n % LimbBase>> \o BigFromNat(n \div LimbBase)

RECURSIVE BigAddCarry(_, _, _)
BigAddCarry(a, b, c) ==
  IF a = <<>> /\ b = <<>> THEN (IF c = 0 THEN <<>> ELSE <<c>>)
  ELSE LET x == IF a = <<>> THEN 0 ELSE Head(a)
           y == IF b = <<>> THEN 0 ELSE Head(b)
           t == x + y + c
       IN <<t % LimbBase>> \o
            BigAddCarry(IF a = <<>> THEN a ELSE Tail(a),
                        IF b = <<>> THEN b ELSE Tail(b), t \div LimbBase)

BigAdd(a, b) == BigAddCarry(a, b, 0)

\* a - b for a >= b
RECURSIVE BigSubBorrow(_, _, _)
BigSubBorrow(a, b, c) ==
  IF a = <<>> THEN <<>>
  ELSE LET y == IF b = <<>> THEN 0 ELSE Head(b)
           t == Head(a) - y - c
       IN <<IF t < 0 THEN t + LimbBase ELSE t>> \o
            BigSubBorrow(Tail(a), IF b = <<>> THEN b ELSE Tail(b),
                         IF t < 0 THEN 1 ELSE 0)

BigSub(a, b) == BigNorm(BigSubBorrow(a, b, 0))

\* -1, 0, 1 as a < b, a = b, a > b
RECURSIVE BigCmpFrom(_, _, _)
BigCmpFrom(a, b, i) ==
  IF i = 0 THEN 0
  ELSE IF a[i] < b[i] THEN 0 - 1
  ELSE IF a[i] > b[i] THEN 1
  ELSE BigCmpFrom(a, b, i - 1)

BigCmp(a, b) ==
  IF Len(a) < Len(b) THEN 0 - 1
  ELSE IF Len(a) > Len(b) THEN 1
  ELSE BigCmpFrom(a, b, Len(a))

RECURSIVE BigMulSmall(_, _, _)
BigMulSmall(a, k, c) ==
  IF a = <<>> THEN (IF c = 0 THEN <<>> ELSE <<c>>)
  ELSE LET t == Head(a) * k + c
       IN <<t % LimbBase>> \o BigMulSmall(Tail(a), k, t \div LimbBase)

RECURSIVE BigMul(_, _)
BigMul(a, b) ==
  IF b = <<>> \/ a = <<>> THEN <<>>
  ELSE BigNorm(BigAdd(BigMulSmall(a, Head(b), 0), <<0>> \o BigMul(a, Tail(b))))

RECURSIVE Pow2(_)
Pow2(k) == IF k = 0 THEN 1 ELSE 2 * Pow2(k - 1)

RECURSIVE IntBitLen(_)
IntBitLen(n) == IF n = 0 THEN 0 ELSE 1 + IntBitLen(n \div 2)

BigBitLen(a) ==
  IF a = <<>> THEN 0 ELSE LimbBits * (Len(a) - 1) + IntBitLen(a[Len(a)])

\* bit i of a, the lowest bit being bit 1
BigBit(a, i) ==
  LET limb == (i - 1) \div LimbBits + 1
  IN IF limb > Len(a) THEN 0
     ELSE (a[limb] \div Pow2((i - 1) % LimbBits)) % 2

\* a * 2^k
RECURSIVE BigShl(_, _)
BigShl(a, k) ==
  IF k = 0 \/ a = <<>> THEN a
  ELSE IF k >= LimbBits THEN BigShl(<<0>> \o a, k - LimbBits)
  ELSE BigShl(BigAdd(a, a), k - 1)

RECURSIVE BigHalfFrom(_, _)
BigHalfFrom(a, i) ==
  IF i > Len(a) THEN <<>>
  ELSE LET up == IF i < Len(a) THEN a[i + 1] % 2 ELSE 0
       IN <<a[i] \div 2 + up * (LimbBase \div 2)>> \o BigHalfFrom(a, i + 1)

\* floor(a / 2^k)
RECURSIVE BigShr(_, _)
BigShr(a, k) ==
  IF k = 0 \/ a = <<>> THEN a
  ELSE IF k >= LimbBits THEN BigShr(Tail(a), k - LimbBits)
  ELSE BigShr(BigNorm(BigHalfFrom(a, 1)), k - 1)

\* the largest digit g + (a number below 2^(b+1)) whose product with den is <= r
RECURSIVE DigitSearch(_, _, _, _)
DigitSearch(r, den, g, b) ==
  IF b < 0 THEN g
  ELSE LET t == g + Pow2(b)
       IN IF BigCmp(BigMulSmall(den, t, 0), r) <= 0
            THEN DigitSearch(r, den, t, b - 1)
            ELSE DigitSearch(r, den, g, b - 1)

\* long division, one limb of the numerator at a time, from limb i down:
\* acc = [q, r] is the quotient and the remainder of the limbs already taken
RECURSIVE BigDivFrom(_, _, _, _)
BigDivFrom(num, den, i, acc) ==
  IF i = 0 THEN acc
  ELSE LET r1 == BigNorm(<<num[i]>> \o acc.r)
           g == DigitSearch(r1, den, 0, LimbBits - 1)
           r2 == IF g = 0 THEN r1 ELSE BigSub(r1, BigMulSmall(den, g, 0))
       IN BigDivFrom(num, den, i - 1, [q |-> BigNorm(<<g>> \o acc.q), r |-> r2])

\* floor(num / den) and num mod den, for den # 0
BigDivMod(num, den) == BigDivFrom(num, den, Len(num), [q |-> <<>>, r |-> <<>>])

\* ------------------------------------------------------- binary64 numbers
\* a finite double is s * m * 2^e with s = 1 or -1 and m = 0 or 2^52 <= m < 2^53
MantBits == 53

DZero == [s |-> 1, m |-> <<>>, e |-> 0]

\* the double nearest to s * (M + t) * 2^E, ties to even, where 0 < t < 1 when
\* sticky and t = 0 otherwise
DRound(s, M, E, sticky) ==
  LET len == BigBitLen(M) IN
  IF len = 0 THEN DZero
  ELSE IF len <= MantBits
    THEN [s |-> s, m |-> BigShl(M, MantBits - len), e |-> E - (MantBits - len)]
    ELSE LET k == len - MantBits
             q == BigShr(M, k)
             rem == BigSub(M, BigShl(q, k))
             half == BigShl(<<1>>, k - 1)
             c == BigCmp(rem, half)
             up == c > 0 \/ (c = 0 /\ (sticky \/ BigBit(q, 1) = 1))
             q1 == IF up THEN BigAdd(q, <<1>>) ELSE q
         IN IF BigBitLen(q1) > MantBits
              THEN [s |-> s, m |-> BigShr(q1, 1), e |-> E + k + 1]
              ELSE [s |-> s, m |-> q1, e |-> E + k]

DFromInt(n) == DRound(IF n < 0 THEN 0 - 1 ELSE 1, BigFromNat(IF n < 0 THEN 0 - n ELSE n), 0, FALSE)

DNeg(x) == IF x.m = <<>> THEN x ELSE [x EXCEPT !.s = 0 - x.s]

\* x + y
DAdd(x, y) ==
  IF x.m = <<>> THEN y
  ELSE IF y.m = <<>> THEN x
  ELSE LET low == IF x.e < y.e THEN x.e ELSE y.e
           X == BigShl(x.m, x.e - low)
           Y == BigShl(y.m, y.e - low)
       IN IF x.s = y.s THEN DRound(x.s, BigAdd(X, Y), low, FALSE)
          ELSE IF BigCmp(X, Y) >= 0 THEN DRound(x.s, BigSub(X, Y), low, FALSE)
          ELSE DRound(y.s, BigSub(Y, X), low, FALSE)

DSub(x, y) == DAdd(x, DNeg(y))

\* x < y
DLt(x, y) == LET d == DSub(x, y) IN d.m # <<>> /\ d.s < 0

DLe(x, y) == ~DLt(y, x)

\* Math.min, Math.max of two finite numbers
DMin(x, y) == IF DLt(y, x) THEN y ELSE x
DMax(x, y) == IF DLt(x, y) THEN y ELSE x

\* x * y
DMul(x, y) ==
  IF x.m = <<>> \/ y.m = <<>> THEN DZero
  ELSE DRound(x.s * y.s, BigMul(x.m, y.m), x.e + y.e, FALSE)

\* x / y for y # 0
DDiv(x, y) ==
  IF x.m = <<>> THEN DZero
  ELSE LET d == BigDivMod(BigShl(x.m, MantBits + 3), y.m)
       IN DRound(x.s * y.s, d.q, x.e - y.e - (MantBits + 3), d.r # <<>>)

\* the double a decimal literal p/q denotes
DLit(p, q) == DDiv(DFromInt(p), DFromInt(q))

\* -------------------------------------------------------------------- zoom
ScaleStep == DLit(1, 5)      \* 0.2
MinScale == DLit(1, 2)       \* 0.5
MaxScale == DFromInt(3)      \* 3.0
UnitScale == DFromInt(1)     \* 1.0
PageAspect == DLit(7, 5)     \* 1.4

ViewportWidths == {320, 800, 1280}

ViewportHeights == {320, 720}

\* the windows the viewer is shown in; the container spans the window, so
\* containerRef.current.clientWidth is the window's inner width
Viewports ==
  {[innerWidth |-> w, innerHeight |-> h] : w \in ViewportWidths, h \in ViewportHeights}

Min(a, b) == IF a <= b THEN a ELSE b

\* calculatePageWidth(), for the zoomMode of the render it belongs to
CalculatePageWidth(view, mode) ==
  LET containerWidth == view.innerWidth
      availableWidth == containerWidth - 64
  IN IF mode = "fit-width" \/ mode = "auto"
       THEN Min(availableWidth, 1200)
       ELSE IF containerWidth < 640 THEN containerWidth - 32
       ELSE IF containerWidth < 1024 THEN Min(600, containerWidth - 64)
       ELSE Min(800, containerWidth - 128)

\* the page width once the handler's render has committed: the resize effect
\* (deps [calculatePageWidth], itself deps [zoomMode]) runs again when the mode
\* changed; otherwise the width is what the handler left
WidthAfterRender(newMode, handlerWidth) ==
  IF newMode # zoomMode THEN CalculatePageWidth(viewport, newMode) ELSE handlerWidth

\* zoomIns after a step that is not a zoomIn
RunAfter(newScale) == IF newScale = UnitScale THEN 0 ELSE 0 - 1

\* the state of a mounted viewer: useState(1.0), useState('auto'), and the
\* page width the mount effect computes
ZoomInit ==
  /\ zoomMode = "auto"
  /\ scale = UnitScale
  /\ viewport \in Viewports
  /\ pageWidth = CalculatePageWidth(viewport, "auto")
  /\ zoomIns = 0

ZoomFrame == UNCHANGED <<viewerVars, hookVars, readerVars, route, searchVars>>

\* setScale(prev => Math.min(prev + 0.2, 3.0))
ZoomInScale(prev) == DMin(DAdd(prev, ScaleStep), MaxScale)

\* setScale(prev => Math.max(prev - 0.2, 0.5))
ZoomOutScale(prev) == DMax(DSub(prev, ScaleStep), MinScale)

ZoomIn ==
  /\ zoomIns < MaxZoomIns
  /\ zoomMode' = "custom"
  /\ scale' = ZoomInScale(scale)
  /\ pageWidth' = WidthAfterRender("custom", pageWidth)
  /\ zoomIns' = IF zoomIns >= 0 THEN zoomIns + 1 ELSE RunAfter(scale')
  /\ lastOp' = Op("zoomIn", 0)
  /\ calls' = <<>>
  /\ UNCHANGED viewport
  /\ ZoomFrame

ZoomOut ==
  /\ zoomMode' = "custom"
  /\ scale' = ZoomOutScale(scale)
  /\ pageWidth' = WidthAfterRender("custom", pageWidth)
  /\ zoomIns' = RunAfter(scale')
  /\ lastOp' = Op("zoomOut", 0)
  /\ calls' = <<>>
  /\ UNCHANGED viewport
  /\ ZoomFrame

\* mutant of ResetZoom: the mode returns to auto but the scale is kept
ResetZoomKeepsScale ==
  /\ zoomMode' = "auto"
  /\ scale' = scale
  /\ pageWidth' = WidthAfterRender("auto", pageWidth)
  /\ zoomIns' = RunAfter(scale)
  /\ lastOp' = Op("resetZoom", 0)
  /\ calls' = <<>>
  /\ UNCHANGED viewport
  /\ ZoomFrame

\* resetZoom: setZoomMode('auto'); setScale(1.0)
ResetZoom ==
  /\ zoomMode' = "auto"
  /\ scale' = UnitScale
  /\ pageWidth' = WidthAfterRender("auto", pageWidth)
  /\ zoomIns' = 0
  /\ lastOp' = Op("resetZoom", 0)
  /\ calls' = <<>>
  /\ UNCHANGED viewport
  /\ ZoomFrame

SetFitToWidth ==
  /\ zoomMode' = "fit-width"
  /\ scale' = UnitScale
  /\ pageWidth' = WidthAfterRender("fit-width", CalculatePageWidth(viewport, zoomMode))
  /\ zoomIns' = 0
  /\ lastOp' = Op("setFitToWidth", 0)
  /\ calls' = <<>>
  /\ UNCHANGED viewport
  /\ ZoomFrame

\* Math.min(heightScale, 1.0) with heightScale = containerHeight / (containerWidth * 1.4)
FitToPageScale(view, mode) ==
  LET containerHeight == view.innerHeight - 180
      containerWidth == CalculatePageWidth(view, mode)
      heightScale == DDiv(DFromInt(containerHeight),
                          DMul(DFromInt(containerWidth), PageAspect))
  IN DMin(heightScale, UnitScale)

SetFitToPage ==
  /\ zoomMode' = "fit-page"
  /\ scale' = FitToPageScale(viewport, zoomMode)
  /\ pageWidth' = WidthAfterRender("fit-page", pageWidth)
  /\ zoomIns' = RunAfter(scale')
  /\ lastOp' = Op("setFitToPage", 0)
  /\ calls' = <<>>
  /\ UNCHANGED viewport
  /\ ZoomFrame

SetActualSize ==
  /\ zoomMode' = "custom"
  /\ scale' = UnitScale
  /\ pageWidth' = WidthAfterRender("custom", CalculatePageWidth(viewport, zoomMode))
  /\ zoomIns' = 0
  /\ lastOp' = Op("setActualSize", 0)
  /\ calls' = <<>>
  /\ UNCHANGED viewport
  /\ ZoomFrame

\* the window's resize event: handleResize sets the page width
HandleResize(view) ==
  /\ view # viewport
  /\ viewport' = view
  /\ pageWidth' = CalculatePageWidth(view, zoomMode)
  /\ lastOp' = Op("resize", 0)
  /\ calls' = <<>>
  /\ UNCHANGED <<zoomMode, scale, zoomIns>>
  /\ ZoomFrame

InitZoom ==
  /\ ZoomInit
  /\ lastOp = Op("mount", 0)
  /\ calls = <<>>
  /\ ViewerUnused
  /\ HookUnused
  /\ ReaderUnused
  /\ RouteUnused
  /\ SearchUnused

NextZoom ==
  \/ ZoomIn
  \/ ZoomOut
  \/ ResetZoom
  \/ SetFitToWidth
  \/ SetFitToPage
  \/ SetActualSize
  \/ \E v \in Viewports : HandleResize(v)

SpecZoom == InitZoom /\ [][NextZoom]_vars

\* ------------------------------------------------------------------ search
\* String.prototype.toLowerCase on the letters the documents use
LowerChar(c) ==
  CASE c = "A" -> "a"
    [] c = "B" -> "b"
    [] OTHER -> c

ToLowerCase(t) == [i \in 1..Len(t) |-> LowerChar(t[i])]

RECURSIVE TrimEnd(_)
TrimEnd(t) ==
  IF t # <<>> /\ IsSpace(t[Len(t)]) THEN TrimEnd(SubSeq(t, 1, Len(t) - 1)) ELSE t

\* String.prototype.trim
Trim(t) == TrimEnd(TrimStart(t))

\* items.join(sep)
RECURSIVE Join(_, _)
Join(items, sep) ==
  IF items = <<>> THEN <<>>
  ELSE IF Len(items) = 1 THEN items[1]
  ELSE items[1] \o sep \o Join(Tail(items), sep)

\* the first index >= i at which sep occurs in t, 0 when there is none
RECURSIVE IndexOf(_, _, _)
IndexOf(t, sep, i) ==
  IF i + Len(sep) - 1 > Len(t) THEN 0
  ELSE IF SubSeq(t, i, i + Len(sep) - 1) = sep THEN i
  ELSE IndexOf(t, sep, i + 1)

\* mutant of Split: the text is cut at every occurrence, overlapping ones too
RECURSIVE SplitOverlapping(_, _)
SplitOverlapping(t, sep) ==
  LET i == IndexOf(t, sep, 1)
  IN IF i = 0 THEN <<t>>
     ELSE <<SubSeq(t, 1, i - 1)>> \o SplitOverlapping(SubSeq(t, i + 1, Len(t)), sep)

\* String.prototype.split with a non-empty separator
RECURSIVE Split(_, _)
Split(t, sep) ==
  LET i == IndexOf(t, sep, 1)
  IN IF i = 0 THEN <<t>>
     ELSE <<SubSeq(t, 1, i - 1)>> \o Split(SubSeq(t, i + Len(sep), Len(t)), sep)

\* textContent.items.map(item => item.str).join(' ').toLowerCase()
PageText(items) == ToLowerCase(Join(items, <<" ">>))

\* pageText.split(searchLower).length - 1
PageMatches(items, searchLower) == Len(Split(PageText(items), searchLower)) - 1

\* the text items a page can have: none, one item "aAa", the items "ab" and "a"
PageItemLists ==
  {<<>>, << <<"a", "A", "a">> >>, << <<"a", "b">>, <<"a">> >>}

RECURSIVE DocumentsOf(_)
DocumentsOf(len) ==
  IF len = 0 THEN {<<>>}
  ELSE LET shorter == DocumentsOf(len - 1) IN
       shorter \cup {Append(d, p) : d \in {x \in shorter : Len(x) = len - 1},
                                    p \in PageItemLists}

\* the documents: 1..MaxDocPages pages of text items
Documents == DocumentsOf(MaxDocPages) \ {<<>>}

\* what the user can have typed in the search field when submitting
SearchInputs ==
  {<<>>, <<" ">>, <<"a">>, <<" ", "a", "a">>, <<"B", " ", "A", " ">>}

SearchFrame == UNCHANGED <<viewerVars, hookVars, readerVars, route, zoomVars, pageTexts>>

\* mutant of FailedSearchCount: the matches counted before the failure are reported
FailedSearchPartialCount(p) == p.total

\* setMatchCount(0) in the catch block of search p
FailedSearchCount(p) == 0

\* handleSearch(query) up to its first await; op is the handler it runs in
HandleSearch(query, op) ==
  /\ lastOp' = op
  /\ calls' = <<>>
  /\ searchQuery' = query
  /\ IF query = <<>> \/ numPages = 0
       THEN /\ matchCount' = 0
            /\ UNCHANGED <<isSearching, searches>>
       ELSE /\ Len(searches) < MaxSearches
            /\ isSearching' = TRUE
            /\ searches' = Append(searches, [query |-> query, page |-> 1, total |-> 0])
            /\ UNCHANGED matchCount
  /\ SearchFrame

\* SearchBar.handleSearch: the form is submitted
SearchBarSubmit(input) ==
  /\ ~error
  /\ IF Trim(input) # <<>>
       THEN HandleSearch(Trim(input), Op("searchSubmit", 0))
       ELSE /\ lastOp' = Op("searchSubmit", 0)
            /\ calls' = <<>>
            /\ UNCHANGED <<searchQuery, isSearching, matchCount, searches>>
            /\ SearchFrame

\* SearchBar.handleClear
SearchBarClear ==
  /\ ~error
  /\ HandleSearch(<<>>, Op("searchClear", 0))

RemoveAt(seq, k) == SubSeq(seq, 1, k - 1) \o SubSeq(seq, k + 1, Len(seq))

\* search k's awaited page text arrives: the rest of the loop body, and the end of
\* the search when that was the last page
SearchPageResolved(k) ==
  /\ k \in 1..Len(searches)
  /\ LET p == searches[k]
         searchLower == ToLowerCase(p.query)
         totalMatches == p.total + PageMatches(pageTexts[p.page], searchLower)
     IN IF p.page + 1 <= numPages
          THEN /\ searches' = [searches EXCEPT ![k] = [query |-> p.query,
                                                     page |-> p.page + 1,
                                                     total |-> totalMatches]]
               /\ lastOp' = Op("searchPage", k)
               /\ UNCHANGED <<matchCount, isSearching>>
          ELSE /\ matchCount' = totalMatches
               /\ isSearching' = FALSE
               /\ searches' = RemoveAt(searches, k)
               /\ lastOp' = Op("searchDone", k)
  /\ calls' = <<>>
  /\ UNCHANGED searchQuery
  /\ SearchFrame

\* search k's awaited getPage or getTextContent rejects: the catch block
SearchPageRejected(k) ==
  /\ k \in 1..Len(searches)
  /\ matchCount' = FailedSearchCount(searches[k])
  /\ isSearching' = FALSE
  /\ searches' = RemoveAt(searches, k)
  /\ lastOp' = Op("searchFailed", k)
  /\ calls' = <<>>
  /\ UNCHANGED searchQuery
  /\ SearchFrame

\* the viewer mounted on the document's first page in a 1280 x 720 window
InitSearch ==
  /\ url = [pdfName |-> PdfName, page |-> <<>>]
  /\ initialPage = PDFPage(url)
  /\ numPages = 0
  /\ isLoading = TRUE
  /\ error = FALSE
  /\ currentPage = initialPage
  /\ visiblePages = {initialPage}
  /\ isScrollingToPage = FALSE
  /\ isInitialLoad = TRUE
  /\ pageRefs = {}
  /\ timers = <<>>
  /\ navTimer = 0
  /\ navTarget = 0
  /\ ZoomInit
  /\ viewport = [innerWidth |-> 1280, innerHeight |-> 720]
  /\ pageTexts \in Documents
  /\ searchQuery = <<>>
  /\ isSearching = FALSE
  /\ matchCount = 0
  /\ searches = <<>>
  /\ lastOp = Op("mount", 0)
  /\ calls = <<>>
  /\ HookUnused
  /\ ReaderUnused
  /\ RouteUnused

NextSearch ==
  \/ DocumentLoadSuccess(Len(pageTexts))
  \/ DocumentLoadError
  \/ NextPage
  \/ TimerFire
  \/ SetFitToWidth
  \/ \E input \in SearchInputs : SearchBarSubmit(input)
  \/ SearchBarClear
  \/ \E k \in 1..MaxSearches : SearchPageResolved(k)
  \/ \E k \in 1..MaxSearches : SearchPageRejected(k)

SpecSearch == InitSearch /\ [][NextSearch]_vars

\* ------------------------------------------------------- document registry
PDF_CONFIG ==
  [prospectus |-> [file |-> "/UG_Prospectus_2021.pdf", title |-> "University Prospectus"]]

\* the members every object literal inherits from Object.prototype
ObjectPrototypeKeys ==
  {"constructor", "toString", "toLocaleString", "valueOf", "hasOwnProperty",
   "isPrototypeOf", "propertyIsEnumerable", "__proto__", "__defineGetter__",
   "__defineSetter__", "__lookupGetter__", "__lookupSetter__"}

\* pdfName in PDF_CONFIG: true for own and for inherited properties
IsValidPdfName(pdfName) == pdfName \in DOMAIN PDF_CONFIG \cup ObjectPrototypeKeys

\* PDF_CONFIG[pdfName] || null: a registry entry, an inherited member (a function
\* or Object.prototype: truthy, with no file and no title), or null
GetPdfConfig(pdfName) ==
  IF pdfName \in DOMAIN PDF_CONFIG
    THEN [kind |-> "entry", file |-> PDF_CONFIG[pdfName].file,
          title |-> PDF_CONFIG[pdfName].title]
  ELSE IF pdfName \in ObjectPrototypeKeys
    THEN [kind |-> "inherited", file |-> "undefined", title |-> "undefined"]
  ELSE [kind |-> "null", file |-> "undefined", title |-> "undefined"]

\* the document segments a URL can carry
DocumentNames ==
  {"prospectus", "Prospectus", "resume", "x", "toString", "constructor", "__proto__"}

RouteRequests == {[pdfName |-> n, page |-> p] : n \in DocumentNames, p \in RouteSegments}

\* no PDFViewer state exists
ViewerNotConstructed ==
  /\ initialPage = 0
  /\ numPages = 0
  /\ isLoading = FALSE
  /\ error = FALSE
  /\ currentPage = 0
  /\ visiblePages = {}
  /\ isScrollingToPage = FALSE
  /\ isInitialLoad = FALSE
  /\ pageRefs = {}
  /\ timers = <<>>
  /\ navTimer = 0
  /\ navTarget = 0

InitRoute ==
  /\ url \in RouteRequests
  /\ route = [outcome |-> "requested"]
  /\ ViewerNotConstructed
  /\ lastOp = Op("request", 0)
  /\ calls = <<>>
  /\ HookUnused
  /\ ReaderUnused
  /\ ZoomUnused
  /\ SearchUnused

\* the route component PDFPage renders, and PDFViewer under it up to its hooks
RenderRoute ==
  /\ route.outcome = "requested"
  /\ lastOp' = Op("renderRoute", 0)
  /\ LET pageNumber == PDFPage(url)
         pdfConfig == GetPdfConfig(url.pdfName)
     IN IF ~IsValidPdfName(url.pdfName)
          THEN \* redirect('/')
               /\ route' = [outcome |-> "redirect", location |-> "/"]
               /\ calls' = <<[op |-> "redirect", location |-> "/"]>>
               /\ UNCHANGED viewerVars
          ELSE IF pdfConfig.kind = "null"
            THEN \* if (!pdfConfig) return <PDF not found>
                 /\ route' = [outcome |-> "notFound"]
                 /\ calls' = <<>>
                 /\ UNCHANGED viewerVars
            ELSE /\ route' = [outcome |-> "viewer", file |-> pdfConfig.file,
                              title |-> pdfConfig.title]
                 /\ calls' = <<>>
                 /\ initialPage' = pageNumber
                 /\ currentPage' = pageNumber
                 /\ visiblePages' = {pageNumber}
                 /\ isLoading' = TRUE
                 /\ isInitialLoad' = TRUE
                 /\ UNCHANGED <<url, numPages, error, isScrollingToPage, pageRefs, timers,
                                navTimer, navTarget>>
  /\ UNCHANGED <<hookVars, readerVars, zoomVars, searchVars>>

NextRoute == RenderRoute

SpecRoute == InitRoute /\ [][NextRoute]_vars

\* ===================================================================== claims
ViewerNavOps == {"goToPage", "nextPage", "previousPage", "handleGoToPage"}

HookNavOps == {"hookGoToPage", "hookNextPage", "hookPreviousPage"}

Pushes(c) == SelectSeq(c, LAMBDA x : x.op = "push")

Replaces(c) == SelectSeq(c, LAMBDA x : x.op = "replace")

\* n is a page of the loaded document
ValidPage(n) == numPages # 0 /\ n \in 1..numPages

\* the page an explicit navigation asks for, from the current page cur
RequestedPage(op, cur) ==
  CASE op.name = "nextPage" -> JsAdd(cur, 1)
    [] op.name = "previousPage" -> JsSub(cur, 1)
    [] OTHER -> op.page

\* C1: once the document has loaded, the current page is an integer in
\* [1, totalPages], whatever initial page the route supplied.
C1_CurrentPageInRange == numPages # 0 => currentPage \in 1..numPages

\* C2: goToPage(n) with n outside [1, totalPages], or while totalPages is unknown,
\* (directly or from the jump-to-page form) changes nothing: current page,
\* rendered-page set, navigation-intent flag, URL and pending timers stay as they
\* were, and the handler issues no scroll and no router call.
C2_RejectedGoToPageChangesNothing ==
  [][(lastOp'.name \in {"goToPage", "handleGoToPage"} /\ ~ValidPage(lastOp'.page))
       => /\ UNCHANGED <<currentPage, visiblePages, isScrollingToPage, isInitialLoad,
                         url, timers>>
          /\ calls' = <<>>]_vars

\* a goToPage past the last page was rejected after an earlier navigation had moved
\* the viewer
C2_Witness ==
  /\ lastOp.name = "goToPage"
  /\ numPages # 0
  /\ lastOp.page > numPages
  /\ navTarget # 0
  /\ currentPage = navTarget
  /\ calls = <<>>

\* C3: while the settle timer of the last accepted goToPage(n) is still pending,
\* the current page is n: no visibility observation delivered before then moves
\* it, even when timers of earlier navigations are pending too.
C3_CurrentPageHeldUntilSettled == navTimer > 0 => currentPage = navTarget

\* C4: every explicit navigation (goToPage, nextPage, previousPage, jump-to-page
\* submit) whose requested page n is a page of the loaded document issues exactly
\* one URL push, to /{documentName}/{n}; every other one issues no push.
C4_OnePushPerNavigation ==
  [][lastOp'.name \in ViewerNavOps
       => LET n == RequestedPage(lastOp', currentPage)
              pushed == Pushes(calls')
          IN IF ValidPage(n)
               THEN /\ Len(pushed) = 1
                    /\ pushed[1].url = [pdfName |-> PdfName, page |-> <<ToString(n)>>]
                    /\ url' = pushed[1].url
               ELSE pushed = <<>>]_vars

\* previousPage moved the viewer back from the last page of the document
C4_Witness ==
  /\ lastOp.name = "previousPage"
  /\ numPages > 1
  /\ currentPage = numPages - 1
  /\ Len(Pushes(calls)) = 1

\* C5: a URL push is issued only by an explicit user navigation: not by the
\* observer, not by document load, not by the hook's effects (the validation that
\* runs when totalPages becomes known).
C5_PushOnlyByExplicitNavigation ==
  Pushes(calls) # <<>> => lastOp.name \in ViewerNavOps \cup HookNavOps

\* C6: a page n >= 1 written into the URL, as a path segment or as the page
\* query parameter, is read back as n.
C6_RoundTrip ==
  (written # 0 /\ readResult # <<>>) => readResult[1] = written

\* a two-digit page was written as a query parameter and read back
C6_Witness ==
  /\ readerShape = "query"
  /\ written > 9
  /\ readResult = <<written>>

HasDigit(t) == \E i \in 1..Len(t) : IsDigit(t[i])

\* an optional minus sign followed by digits only
IsNumeral(t) ==
  LET body == IF t # <<>> /\ Head(t) = "-" THEN Tail(t) ELSE t IN
  body # <<>> /\ \A i \in 1..Len(body) : IsDigit(body[i])

\* the page component is missing, has no digit at all, or is a numeral below 1
InvalidComponent(c) ==
  \/ c = <<>>
  \/ c[1] = <<>>
  \/ ~HasDigit(c[1])
  \/ IsNumeral(c[1]) /\ ParseInt(c[1]) < 1

\* C7: reading the page from a URL whose page component is missing or invalid
\* (non-numeric, zero, negative) yields 1, for the path reader and for the query
\* reader.
C7_InvalidReadsAsOne ==
  (written = 0 /\ readResult # <<>> /\ InvalidComponent(readerText))
    => readResult[1] = 1

\* the route supplied a page p with 1 < p <= totalPages
DirectLink == numPages # 0 /\ initialPage \in 2..numPages

C9_GoToPageWindow ==
  (lastOp.name = "goToPage" /\ ValidPage(lastOp.page)) =>
    LET n == lastOp.page
        lo == IF n - 2 > 1 THEN n - 2 ELSE 1
        hi == IF n + 2 < numPages THEN n + 2 ELSE numPages
    IN /\ visiblePages = lo..hi
       /\ Cardinality(visiblePages) = hi - lo + 1
       /\ visiblePages \subseteq 1..numPages
       /\ n \in visiblePages

\* goToPage(1) on a document of four pages or more left page 4 unrendered
C9_Witness ==
  /\ lastOp.name = "goToPage"
  /\ lastOp.page = 1
  /\ numPages >= 4
  /\ visiblePages = 1..3

\* C10: when a batch is processed while tracking is not suppressed and its
\* highest intersection ratio is at least the 0.5 threshold, the current page
\* after the batch is the page with that ratio.
C10_HighestRatioWins ==
  (lastOp.name = "observe" /\ ~ObserverSuppressed /\ lastOp.maxRatio >= RatioThreshold)
    => currentPage \in lastOp.top

\* C11: a batch of visibility observations whose intersection ratios are all
\* below 0.5 leaves the current page and the URL unchanged and issues no router
\* call; the rendered-page set may only grow.
C11_LowRatiosChangeNothing ==
  [][(lastOp'.name = "observe" /\ lastOp'.maxRatio < RatioThreshold)
       => /\ UNCHANGED <<currentPage, url>>
          /\ visiblePages \subseteq visiblePages'
          /\ calls' = <<>>]_vars

\* while tracking was active, two pages other than the current one were reported
\* at a quarter of their area each
C11_Witness ==
  /\ lastOp.name = "observe"
  /\ ~ObserverSuppressed
  /\ lastOp.maxRatio = 25
  /\ Cardinality(lastOp.top) = 2
  /\ currentPage \notin lastOp.top

\* C12: after load, nextPage is a no-op when the current page is the last page and
\* otherwise moves the current page to current+1; previousPage is a no-op when the
\* current page is the first page and otherwise moves it to current-1, whatever
\* initial page the URL supplied.
C12_NextPreviousStep ==
  [][(numPages # 0 /\ lastOp'.name \in {"nextPage", "previousPage"})
       => LET edge == IF lastOp'.name = "nextPage" THEN numPages ELSE 1
              moved == IF lastOp'.name = "nextPage"
                         THEN JsAdd(currentPage, 1) ELSE JsSub(currentPage, 1)
          IN IF currentPage = edge
               THEN /\ UNCHANGED <<currentPage, visiblePages, url, timers,
                                   isScrollingToPage>>
                    /\ calls' = <<>>
               ELSE ~IsNaN(currentPage) /\ currentPage' = moved]_vars

\* C18: load failure is terminal: once the load error is reported the viewer holds
\* the error and is not loading, totalPages stays unknown, no reload is attempted,
\* and every later operation leaves the viewer as it is.
C18_LoadFailureTerminal ==
  [][/\ error' => (~isLoading' /\ numPages' = 0)
     /\ error => /\ error'
                 /\ UNCHANGED <<url, initialPage, numPages, isLoading, currentPage,
                                visiblePages, isScrollingToPage, isInitialLoad, timers>>
                 /\ calls' = <<>>]_vars

\* after the load failed on a link to a later page, the left-arrow key called
\* previousPage
C18_Witness ==
  /\ error
  /\ lastOp.name = "previousPage"
  /\ JsGt(currentPage, 1)
  /\ numPages = 0
  /\ ~isLoading

\* the page p clamped to [1, n]
ClampPage(p, n) == IF p < 1 THEN 1 ELSE IF p > n THEN n ELSE p

\* C20: on document load the rendered-page set becomes the radius-3 window around
\* the initial page clamped to [1, totalPages]; so for any initial page the set
\* after load is non-empty and all its members lie in [1, totalPages].
C20_LoadWindowClamped ==
  lastOp.name = "load" =>
    /\ visiblePages # {}
    /\ visiblePages \subseteq 1..numPages
    /\ ~IsNaN(initialPage) =>
         LET p == ClampPage(initialPage, numPages)
             lo == IF p - 3 > 1 THEN p - 3 ELSE 1
             hi == IF p + 3 < numPages THEN p + 3 ELSE numPages
         IN visiblePages = lo..hi

\* s is within [0.5, 3.0]
ScaleInRange(s) == DLe(MinScale, s) /\ DLe(s, MaxScale)

\* C13: the zoom scale stays within [0.5, 3.0] in every reachable state of the
\* zoom state machine, under any sequence of zoomIn, zoomOut, resetZoom,
\* setFitToWidth, setFitToPage and setActualSize and for any viewport.
C13_ScaleInRange == zoomMode # "none" => ScaleInRange(scale)

\* the number 1.0 + 0.2k, capped at 3.0, as JavaScript writes it
StepsFromOne(k) == DMin(DLit(5 + k, 5), MaxScale)

\* C14: zoomIn and zoomOut leave the mode custom and the scale, stepped by 0.2,
\* clamped to [0.5, 3.0]; k zoomIn calls in a row from scale 1.0 give
\* min(1.0 + 0.2k, 3.0) (four give 1.8).
C14_ZoomSteps ==
  /\ lastOp.name \in {"zoomIn", "zoomOut"} =>
       zoomMode = "custom" /\ ScaleInRange(scale)
  /\ (lastOp.name = "zoomIn" /\ zoomIns >= 1) => scale = StepsFromOne(zoomIns)

\* the places where q occurs in text, letter case ignored
Occurrences(text, q) ==
  {i \in 1..(Len(text) - Len(q) + 1) :
     \A j \in 1..Len(q) : LowerChar(text[i + j - 1]) = LowerChar(q[j])}

\* the most occurrences of q in text no two of which overlap
NonOverlapping(text, q) ==
  LET disjoint == {S \in SUBSET Occurrences(text, q) :
                     \A a, b \in S : a < b => b - a >= Len(q)}
  IN MaxOf({Cardinality(S) : S \in disjoint})

\* the matches of q in a document: the sum over its pages, 0 for the empty query
RECURSIVE DocumentCount(_, _)
DocumentCount(doc, q) ==
  IF q = <<>> \/ doc = <<>> THEN 0
  ELSE NonOverlapping(Join(Head(doc), <<" ">>), q) + DocumentCount(Tail(doc), q)

\* C15: when a search for a non-empty query on a loaded document completes, the
\* match count is the sum over all pages of the non-overlapping, case-insensitive
\* occurrences of the query in the page's extracted text; clearing the query
\* gives match count 0.
C15_MatchCount ==
  [][/\ lastOp'.name = "searchDone" =>
          matchCount' = DocumentCount(pageTexts, searches[lastOp'.page].query)
     /\ lastOp'.name = "searchClear" => matchCount' = 0]_vars

\* the search for "a" over the pages "ab a" and "aAa" ended with five matches
C15_Witness ==
  /\ lastOp.name = "searchDone"
  /\ searchQuery = <<"a">>
  /\ pageTexts = << << <<"a", "b">>, <<"a">> >>, << <<"a", "A", "a">> >> >>
  /\ searches = <<>>
  /\ matchCount = 5

\* C16: the results of a stale search never overwrite those of a newer one: once
\* all page scans in flight have finished, the match count is the count for the
\* query submitted last (0 for a cleared query).
C16_LatestSearchWins ==
  (lastOp.name = "searchDone" /\ searches = <<>>)
    => matchCount = DocumentCount(pageTexts, searchQuery)

\* C17: when text extraction throws during a search, that search ends with match
\* count 0 and the search-in-progress flag false, no partial count is reported,
\* and current page, rendered-page set, zoom state and URL are unchanged.
C17_SearchFailure ==
  [][lastOp'.name = "searchFailed"
       => /\ matchCount' = 0
          /\ ~isSearching'
          /\ UNCHANGED <<currentPage, visiblePages, url, zoomMode, scale, pageWidth>>]_vars

\* a search failed on a two-page document after the user had moved to page 2 and
\* chosen fit-to-width, and after an earlier search had reported matches
C17_Witness ==
  /\ lastOp.name = "searchFailed"
  /\ Len(pageTexts) = 2
  /\ currentPage = 2
  /\ zoomMode = "fit-width"
  /\ matchCount = 0
  /\ ~isSearching

\* C19: for every document name that is not a key of the registry the route
\* redirects to the home location and no viewer state is constructed; for every
\* name that is a key the viewer is constructed with that entry's file and title.
C19_RegistryGate ==
  route.outcome \notin {"none", "requested"} =>
    IF url.pdfName \in DOMAIN PDF_CONFIG
      THEN /\ route = [outcome |-> "viewer", file |-> PDF_CONFIG[url.pdfName].file,
                       title |-> PDF_CONFIG[url.pdfName].title]
           /\ isLoading
           /\ currentPage = initialPage
      ELSE /\ route = [outcome |-> "redirect", location |-> "/"]
           /\ ViewerNotConstructed

\* C21: a visibility observation never removes a page from the rendered-page
\* set, and the only pages an accepted goToPage(n) (direct, or through nextPage,
\* previousPage or the jump-to-page form) removes are pages outside [n-2, n+2].
C21_EvictionOutsideWindow ==
  [][/\ lastOp'.name = "observe" => visiblePages \subseteq visiblePages'
     /\ (lastOp'.name \in ViewerNavOps /\ Pushes(calls') # <<>>)
          => \A p \in visiblePages \ visiblePages' :
               p < navTarget' - 2 \/ p > navTarget' + 2]_vars

\* previousPage from page 2 of a four-page document, where pages 1..4 were
\* rendered, dropped page 4
C21_Witness ==
  /\ lastOp.name = "previousPage"
  /\ numPages = 4
  /\ currentPage = 1
  /\ Pushes(calls) # <<>>
  /\ visiblePages = 1..3

\* C22: while the navigation-intent flag or the initial-load flag is set, a batch
\* of visibility observations changes nothing at all: current page, rendered-page
\* set and URL are unchanged, and no router call is issued.
C22_SuppressedBatchChangesNothing ==
  [][(lastOp'.name = "observe" /\ (isScrollingToPage \/ isInitialLoad))
       => /\ UNCHANGED <<currentPage, visiblePages, url>>
          /\ calls' = <<>>]_vars

\* after the initial-load flag was cleared, a batch that reports another page
\* above the threshold arrived while a programmatic scroll was in progress
C22_Witness ==
  /\ lastOp.name = "observe"
  /\ isScrollingToPage
  /\ ~isInitialLoad
  /\ lastOp.maxRatio > RatioThreshold
  /\ currentPage \notin lastOp.top
  /\ calls = <<>>

\* C23: passive tracking always resumes: once the document has loaded, and again
\* after every accepted goToPage, the navigation-intent flag and the initial-load
\* flag are eventually both false, given that pending timers fire, whether or not
\* the target page's element was mounted when the scroll was requested.
C23_TrackingResumes ==
  (numPages # 0) ~> (~isScrollingToPage /\ ~isInitialLoad)

\* C24: one batch of visibility observations delivered to the observer callback
\* produces at most one current-page change and at most one URL replace, however
\* many observations in the batch exceed the ratio threshold.
C24_OneReplacePerTick ==
  lastOp.name = "observe" => Len(Replaces(calls)) <= 1

\* C25: a passive current-page change is committed only after the winning page
\* has stayed the winner for the debounce quiet period: the observer callback
\* itself, which runs at the instant of the observation, changes neither the
\* current page nor the URL, so that an observation superseded within the quiet
\* period never does.
C25_PassiveChangeDebounced ==
  [][lastOp'.name = "observe" => UNCHANGED <<currentPage, url>>]_vars

\* C26: in usePDFNavigation, goToPage(n) with totalPages known makes the current
\* page clamp(n) over [1, totalPages] and issues one URL push that sets
\* page=clamp(n) and keeps every other query parameter; with totalPages unknown
\* and n < 1 it is a no-op.
C26_HookGoToPageClamps ==
  [][lastOp'.name = "hookGoToPage"
       => LET n == lastOp'.page IN
          IF totalPages # 0
            THEN LET target == ClampPage(n, totalPages) IN
                 /\ hookPage' = target
                 /\ Len(calls') = 1
                 /\ calls'[1].op = "push"
                 /\ calls'[1].url = [page |-> <<ToString(target)>>,
                                     rest |-> searchParams.rest]
                 /\ searchParams' = calls'[1].url
            ELSE n < 1 => /\ UNCHANGED <<hookPage, searchParams>>
                          /\ calls' = <<>>]_vars

\* C27: in usePDFNavigation, after any sequence of navigation operations, URL
\* changes by browser back/forward and the arrival of totalPages, once pending
\* effects have run the hook's current page equals the page parameter of the URL
\* (1 when absent) and lies in [1, totalPages] when totalPages is known.
C27_HookPageMatchesUrl ==
  (lastOp.name # "mount" /\ hookEffects = {})
    => /\ hookPage = HookPageFromUrl(searchParams)
       /\ totalPages # 0 => hookPage \in 1..totalPages

\* C28: in PDFViewer, between handlers, the page number the route reads from the
\* URL (1 when the page segment is absent) equals the current page, after any
\* sequence of document load, accepted or rejected navigations and passive
\* scroll-driven updates.
C28_UrlMatchesCurrentPage == PDFPage(url) = currentPage

\* after an explicit navigation, a passive update moved the viewer to a third
\* page and replaced the URL
C28_Witness ==
  /\ lastOp.name = "observe"
  /\ Replaces(calls) # <<>>
  /\ navTarget # 0
  /\ currentPage \notin {navTarget, initialPage}
  /\ url.page = <<ToString(currentPage)>>

\* C29: in PDFViewer, once the document has loaded, the current page is always a
\* member of the rendered-page set, after any sequence of goToPage, nextPage,
\* previousPage and visibility observations and for any initial page supplied
\* by the URL.
C29_CurrentPageRendered == numPages # 0 => currentPage \in visiblePages

\* C30: the search-in-progress flag is true exactly while at least one non-empty
\* search is still scanning pages: with overlapping searches it does not become
\* false while a newer search is still running, and once every started search
\* has completed or failed it is false.
C30_SearchingWhileScanning == isSearching <=> searches # <<>>

\* C31: in every reachable zoom state, mode auto or fit-width implies scale = 1.0
\* (the scale differs from 1.0 only in modes custom and fit-page), under any
\* sequence of zoomIn, zoomOut, resetZoom, setFitToWidth, setFitToPage and
\* setActualSize.
C31_AutoAndFitWidthAtUnitScale ==
  zoomMode \in {"auto", "fit-width"} => scale = UnitScale

\* resetZoom brought the viewer back to mode auto in a viewport where fit-to-page
\* gives a scale below 1.0
C31_Witness ==
  /\ lastOp.name = "resetZoom"
  /\ zoomMode = "auto"
  /\ scale = UnitScale
  /\ viewport # <<>>
  /\ FitToPageScale(viewport, "fit-page") # UnitScale

====
